---- MODULE Spec2Model ----
(***************************************************************************)
(* The tryVoltSP provisioning chain:                                       *)
(*   tryVoltSP.py -> vwap/vwap_setup.py -> VoltDB core script              *)
(*     -> vwap/voltsp_setup.py -> vwap/vwap_loadgen_setup.py               *)
(* Each script is a sequential process; a parent blocks in subprocess.run  *)
(* while its child runs.  The cloud project and the Kubernetes cluster are *)
(* the environment.  The VoltDB core script is modelled from               *)
(* vwap/junk/voltdb_core_setuplat.py.                                      *)
(*                                                                         *)
(* Two specifications:                                                     *)
(*   Spec      the whole chain, started by the user running tryVoltSP.py   *)
(*   SpecWait  the readiness waits called directly, with any timeout       *)
(***************************************************************************)
EXTENDS Integers, Sequences, FiniteSets, TLC

VARIABLES
    mode,       \* "chain" | "wait": which entry point the run started from
    pc,         \* [Scripts -> position in the script's main()]
    exitCode,   \* [Scripts -> process exit status, NotExited while it has none]
    raised,     \* [Scripts -> the exception that ended the process, "none"]
    argv,       \* [Scripts -> sys.argv, a sequence of strings]
    loc,        \* [Scripts -> record of main()'s local variables]
    printed,    \* [Scripts -> set of messages printed: "success", "failure"]
    issued,     \* set of <<script, command, run>>: external commands started
    lastRun,    \* the last run_command() call and its outcome
    files,      \* temporary files that exist on disk
    w,          \* the readiness wait in progress
    gke,        \* [Zones -> status of the GKE cluster of the entered name]
    namespaces, \* Kubernetes namespaces that exist
    releases,   \* Helm releases that exist: <<name, namespace>>
    rp,         \* Redpanda broker pods: [brokers, ready]
    topics,     \* Redpanda topics that exist
    topicCfg,   \* topics whose configuration has been altered
    sts,        \* VoltDB StatefulSet: [exists, replicas, ready]
    dep,        \* VoltSP Deployment: [exists, replicas, ready]
    secrets,    \* docker-registry secrets that exist: <<name, namespace>>
    rows,       \* rows in the VoltDB table DUMMY
    run,        \* which run of vwap_setup.py this is (1, 2)
    snap        \* the Redpanda stage's cluster state when the second run began

vars == <<mode, pc, exitCode, raised, argv, loc, printed, issued, lastRun, files,
          w, gke, namespaces, releases, rp, topics, topicCfg, sts, dep, secrets,
          rows, run, snap>>

progVars == <<pc, exitCode, raised, argv, loc, printed, issued, lastRun, files,
              run, snap>>
envVars == <<gke, namespaces, releases, rp, topics, topicCfg, sts, dep, secrets, rows>>

-----------------------------------------------------------------------------
(* Bounds of the model *)

\* longest time one status command takes in SpecWait, in seconds
MaxCmdDur == 1
\* the time every status command takes in Spec, in seconds: slow commands, so
\* that a wait of the chain makes a few polls and not sixty
ChainCmdDur == 290
\* timeouts tried in SpecWait are 0 .. MaxTimeoutHalves half-intervals
MaxTimeoutHalves == 5
\* most replicas a Deployment or StatefulSet is given
MaxReplicas == 2
\* most broker pods a pre-existing Redpanda release has
MaxBrokers == 4

(* Program constants *)

\* dict.get(key, 0) on a key that is missing: the key's value is Absent
Absent == -1
\* a process that has not exited
NotExited == -1

GKE_TIMEOUT == 900
GKE_SLEEP == 30
REDPANDA_TIMEOUT == 600
REDPANDA_SLEEP == 10
VOLTSP_TIMEOUT == 600
VOLTSP_SLEEP == 10
VOLTDB_TIMEOUT == 900
VOLTDB_SLEEP == 10
STSOBJ_TIMEOUT == 120
STSOBJ_SLEEP == 5
total_expected_pods == 3

Scripts == {"try", "vwap", "core", "voltsp", "loadgen"}
WaitFns == {"gke", "redpanda", "voltsp", "voltdb", "stsobj"}

default_gcp_zone == "asia-northeast1-b"
Zones == {default_gcp_zone, "us-central1-a"}
GkeStatuses == {"ABSENT", "PROVISIONING", "RUNNING", "RECONCILING"}

-----------------------------------------------------------------------------
(* The readiness waits *)

\* deploy_info.get('spec', {}).get('replicas', 0)
GetOr(v, default) == IF v = Absent THEN default ELSE v

\* a plausible slip: the desired_replicas > 0 guard left out
ReplicasReadyNoGuard(desired_replicas, ready_replicas) ==
    ready_replicas = desired_replicas

\* if desired_replicas > 0 and ready_replicas == desired_replicas
ReplicasReady(desired_replicas, ready_replicas) ==
    desired_replicas > 0 /\ ready_replicas = desired_replicas

\* default timeout_seconds of each wait
DefaultTimeout(fn) ==
    CASE fn = "gke" -> GKE_TIMEOUT
      [] fn = "redpanda" -> REDPANDA_TIMEOUT
      [] fn = "voltsp" -> VOLTSP_TIMEOUT
      [] fn = "voltdb" -> VOLTDB_TIMEOUT
      [] fn = "stsobj" -> STSOBJ_TIMEOUT

\* time.sleep(...) at the end of each iteration
SleepInterval(fn) ==
    CASE fn = "gke" -> GKE_SLEEP
      [] fn = "redpanda" -> REDPANDA_SLEEP
      [] fn = "voltsp" -> VOLTSP_SLEEP
      [] fn = "voltdb" -> VOLTDB_SLEEP
      [] fn = "stsobj" -> STSOBJ_SLEEP

NoWait == [fn |-> "none", pc |-> "done", zone |-> default_gcp_zone, timeout |-> 0,
           elapsed |-> 0, result |-> "none", polls |-> 0,
           obs |-> [ok |-> FALSE, desired |-> 0, ready |-> 0, status |-> "none"],
           sawReady |-> FALSE, sawTruly |-> FALSE,
           everRunning |-> FALSE]

\* what the resource is at this instant: every replica (broker, node) ready
TrulyReady(fn, zone) ==
    CASE fn = "gke" -> gke[zone] = "RUNNING"
      [] fn = "redpanda" -> rp.brokers > 0 /\ rp.ready = rp.brokers
      [] fn = "voltsp" -> dep.exists /\ dep.replicas > 0 /\ dep.ready = dep.replicas
      [] fn = "voltdb" -> sts.exists /\ sts.replicas > 0 /\ sts.ready = sts.replicas
      [] fn = "stsobj" -> sts.exists

\* start_time = time.time(), entering the while loop
StartWait(fn, zone, timeout) ==
    [NoWait EXCEPT !.fn = fn, !.pc = "check", !.zone = zone, !.timeout = timeout,
                   !.everRunning = (fn = "gke" /\ gke[zone] = "RUNNING" /\ 0 < timeout)]

\* the status command of one iteration: whether it can succeed at all
CommandCanSucceed(fn, zone) ==
    CASE fn = "gke" -> gke[zone] # "ABSENT"
      [] fn = "redpanda" -> TRUE
      [] fn = "voltsp" -> dep.exists
      [] fn = "voltdb" -> sts.exists
      [] fn = "stsobj" -> TRUE

\* what a successful status command reports
Observe(fn, zone) ==
    CASE fn = "gke" ->
           [ok |-> TRUE, desired |-> 0, ready |-> 0, status |-> gke[zone]]
      [] fn = "redpanda" ->
           [ok |-> TRUE, desired |-> total_expected_pods, ready |-> rp.ready,
            status |-> "none"]
      [] fn = "voltsp" ->
           [ok |-> TRUE, desired |-> GetOr(dep.replicas, 0),
            ready |-> GetOr(dep.ready, 0), status |-> "none"]
      [] fn = "voltdb" ->
           [ok |-> TRUE, desired |-> GetOr(sts.replicas, 0),
            ready |-> GetOr(sts.ready, 0), status |-> "none"]
      [] fn = "stsobj" ->
           [ok |-> TRUE, desired |-> 0, ready |-> 0,
            status |-> IF sts.exists THEN "statefulset.apps/name" ELSE ""]

FailedObs == [ok |-> FALSE, desired |-> 0, ready |-> 0, status |-> "none"]

\* a plausible slip: a cluster that is being reconciled taken as ready too
ClusterIsUp(status) == status \in {"RUNNING", "RECONCILING"}

\* if status == "RUNNING"
ClusterIsRunning(status) == status = "RUNNING"

\* the test that makes the loop return True
PollSaysReady(fn, o) ==
    CASE fn = "gke" -> ClusterIsRunning(o.status)
      [] fn = "redpanda" -> o.ready = total_expected_pods
      [] fn = "voltsp" -> ReplicasReady(o.desired, o.ready)
      [] fn = "voltdb" -> ReplicasReady(o.desired, o.ready)
      [] fn = "stsobj" -> o.status \in {"statefulset/name", "statefulset.apps/name"}

\* a plausible slip: the loop condition off by one
LoopContinuesOffByOne(elapsed, timeout_seconds) == elapsed <= timeout_seconds

\* while time.time() - start_time < timeout_seconds
LoopContinues(elapsed, timeout_seconds) == elapsed < timeout_seconds

\* the while condition; on exit the function prints Timeout and returns False
WaitCheck ==
    /\ w.fn # "none" /\ w.pc = "check"
    /\ IF LoopContinues(w.elapsed, w.timeout)
         THEN w' = [w EXCEPT !.pc = "poll"]
         ELSE w' = [w EXCEPT !.pc = "done", !.result = "false"]
    /\ UNCHANGED <<mode, progVars, envVars>>

\* the durations a status command may take
CmdDurations == IF mode = "wait" THEN 0 .. MaxCmdDur ELSE {ChainCmdDur}

\* one iteration's try block: run the status command, parse, test
WaitPoll ==
    /\ w.fn # "none" /\ w.pc = "poll"
    /\ \E d \in CmdDurations, out \in {"ok", "CalledProcessError", "JSONDecodeError"} :
         /\ out = "ok" => CommandCanSucceed(w.fn, w.zone)
         /\ LET o == IF out = "ok" THEN Observe(w.fn, w.zone) ELSE FailedObs
                t == out = "ok" /\ TrulyReady(w.fn, w.zone)
                base == [w EXCEPT !.elapsed = @ + d, !.polls = @ + 1, !.obs = o,
                                  !.sawTruly = @ \/ t]
            IN  IF o.ok /\ PollSaysReady(w.fn, o)
                  THEN w' = [base EXCEPT !.pc = "done", !.result = "true",
                                         !.sawReady = TRUE]
                  ELSE w' = [base EXCEPT !.pc = "sleep"]
    /\ UNCHANGED <<mode, progVars, envVars>>

\* time.sleep(10) / time.sleep(30)
WaitSleep ==
    /\ w.fn # "none" /\ w.pc = "sleep"
    /\ w' = [w EXCEPT !.pc = "check", !.elapsed = @ + SleepInterval(w.fn)]
    /\ UNCHANGED <<mode, progVars, envVars>>

WaitActive(fn) == w.fn = fn /\ w.pc # "done"

\* the resource was RUNNING at an instant before the timeout had elapsed
NoteRunning(g) ==
    IF WaitActive("gke") /\ g[w.zone] = "RUNNING" /\ w.elapsed < w.timeout
      THEN [w EXCEPT !.everRunning = TRUE] ELSE w

-----------------------------------------------------------------------------
(* The environment while a wait polls it *)

\* the cloud provider moves the cluster from one status to another
EnvGke ==
    /\ WaitActive("gke")
    /\ \E s \in GkeStatuses \ {gke[w.zone]} :
         /\ gke' = [gke EXCEPT ![w.zone] = s]
         /\ w' = NoteRunning(gke')
    /\ UNCHANGED <<mode, progVars, namespaces, releases, rp, topics, topicCfg,
                   sts, dep, secrets, rows>>

\* broker pods become ready or stop being ready
EnvPods ==
    /\ WaitActive("redpanda")
    /\ \E b \in 0 .. MaxBrokers, r \in 0 .. MaxBrokers :
         /\ r <= b
         /\ mode = "chain" => b = rp.brokers
         /\ rp' = [rp EXCEPT !.brokers = b, !.ready = r]
         /\ rp' # rp
    /\ UNCHANGED <<mode, progVars, w, gke, namespaces, releases, topics, topicCfg,
                   sts, dep, secrets, rows>>

ReplicaValues == {Absent} \cup (0 .. MaxReplicas)

\* the Deployment controller and whoever edits the Deployment
EnvDeployment ==
    /\ WaitActive("voltsp")
    /\ \E e \in BOOLEAN, n \in ReplicaValues, r \in ReplicaValues :
         /\ dep' = [exists |-> e, replicas |-> n, ready |-> r]
         /\ dep' # dep
         /\ ~e => (n = Absent /\ r = Absent)
         /\ mode = "chain" => (e = dep.exists /\ n = dep.replicas /\ r \in 0 .. n)
    /\ UNCHANGED <<mode, progVars, w, gke, namespaces, releases, rp, topics, topicCfg,
                   sts, secrets, rows>>

\* the VoltDB operator and whoever edits the StatefulSet
EnvStatefulSet ==
    /\ WaitActive("voltdb") \/ WaitActive("stsobj")
    /\ \E e \in BOOLEAN, n \in ReplicaValues, r \in ReplicaValues :
         /\ sts' = [exists |-> e, replicas |-> n, ready |-> r]
         /\ sts' # sts
         /\ ~e => (n = Absent /\ r = Absent)
         /\ (mode = "chain" /\ w.fn = "voltdb") =>
                (e = sts.exists /\ n = sts.replicas /\ r \in 0 .. n)
         /\ (mode = "chain" /\ w.fn = "stsobj") =>
                (~sts.exists /\ e /\ n = 1 /\ r = 0)
    /\ UNCHANGED <<mode, progVars, w, gke, namespaces, releases, rp, topics, topicCfg,
                   dep, secrets, rows>>

------------------------------------------------------------------------

-----------------------------------------------------------------------------
(* Pieces every script shares *)

NoLocals == [x |-> 0]
NoRun == [script |-> "none", ok |-> TRUE, exit_on_error |-> TRUE, outcome |-> "none"]
NoSnap == [releases |-> {}, namespaces |-> {}, topics |-> {}, topicCfg |-> {}]

\* str.lower() on the answers a user types
Lower(s) ==
    CASE s = "GKE" -> "gke"
      [] s = "YES" -> "yes"
      [] s = "Yes" -> "yes"
      [] s = "NO" -> "no"
      [] OTHER -> s

\* input(...) or default
get_user_input(typed, default) == IF typed = "" THEN default ELSE typed

\* sys.exit(code), an uncaught exception (status 1), or main() returning (status 0)
Terminate(s, code, exc) ==
    /\ pc' = [pc EXCEPT ![s] = "exited"]
    /\ exitCode' = [exitCode EXCEPT ![s] = code]
    /\ raised' = [raised EXCEPT ![s] = exc]

Goto(s, label) ==
    /\ pc' = [pc EXCEPT ![s] = label]
    /\ UNCHANGED <<exitCode, raised>>

\* what run_command does with a command that exited 0 (ok) or nonzero.
\* voltsp_setup.py names subprocess.CalledCalledProcessError in its except clause:
\* evaluating that name raises AttributeError while CalledProcessError propagates.
RunCommandOutcome(script, ok, exit_on_error) ==
    IF ok THEN "stdout"
    ELSE IF script = "voltsp" THEN "AttributeError"
    ELSE IF exit_on_error THEN "SystemExit"
    ELSE "None"

\* run_command(command, message, exit_on_error)
RunCommand(s, command, ok, exit_on_error) ==
    /\ issued' = issued \cup {<<s, command, run>>}
    /\ lastRun' = [script |-> s, ok |-> ok, exit_on_error |-> exit_on_error,
                   outcome |-> RunCommandOutcome(s, ok, exit_on_error)]

\* subprocess.run(command, ...) called directly
Issue(s, command) ==
    /\ issued' = issued \cup {<<s, command, run>>}
    /\ UNCHANGED lastRun

\* a plausible slip: the wait's return value not looked at
ProceedsAlways(result) == TRUE

\* "if not wait_for_...(...): ... sys.exit(1)": the stage goes on only after True
Proceeds(result) == result = "true"

\* a plausible slip: check=True left out, so a failed child raises nothing
ChildFailedUnchecked(returncode) == FALSE

\* subprocess.run([...], check=True) raises CalledProcessError on a nonzero status
ChildFailed(returncode) == returncode # 0

\* subprocess.run([sys.executable, path, *args]): the child starts at the top of main()
\* and the parent blocks until it exits
Invoke(parent, child, args) ==
    /\ argv' = [argv EXCEPT ![child] = <<child>> \o args]
    /\ pc' = [pc EXCEPT ![parent] = "child", ![child] = "start"]
    /\ exitCode' = [exitCode EXCEPT ![child] = NotExited]
    /\ raised' = [raised EXCEPT ![child] = "none"]

\* sys.argv[i] of script s
Arg(s, i) == argv[s][i + 1]

\* a plausible slip: the count compared with the number of arguments, forgetting
\* that sys.argv[0] is the script
ArgsMissingOffByOne(args, needed) == Len(args) < needed

\* if len(sys.argv) < needed + 1
ArgsMissing(args, needed) == Len(args) < needed + 1

\* print(...) of a message, or of the prompt of input(...)
Say(s, message) == printed' = [printed EXCEPT ![s] = @ \cup {message}]

\* a plausible slip: the readiness wait placed inside the creation branch only
SkipGoesPastWait(s) ==
    CASE s = "try" -> "credentials"
      [] s = "vwap" -> "pod_name"
      [] s = "voltsp" -> "invoke"

\* where a stage goes on when the resource exists and its creation is skipped: to
\* the readiness checks that follow the if/else (tryVoltSP.py: inside the branch)
SkipGoesTo(s) ==
    CASE s = "try" -> "start_wait"
      [] s = "vwap" -> "rollout"
      [] s = "voltsp" -> "start_wait"

\* a plausible slip: the child started without waiting for it
ReturnedAtOnce(child) == TRUE

\* subprocess.run returns when the process it started has exited
Returned(child) == pc[child] = "exited"

\* the try/except around subprocess.run of the next script, to the end of main()
ChildReturn(parent, child) ==
    /\ pc[parent] = "child" /\ Returned(child)
    /\ LET rc == exitCode[child]
       IN  /\ loc' = [loc EXCEPT ![parent].childrc = rc]
           /\ IF ChildFailed(rc)
                THEN /\ printed' = [printed EXCEPT ![parent] = @ \cup {"failure"}]
                     /\ Terminate(parent, 1, "SystemExit")
                ELSE /\ printed' = [printed EXCEPT ![parent] = @ \cup {"success"}]
                     /\ Terminate(parent, 0, "none")
    /\ UNCHANGED <<mode, argv, issued, lastRun, files, run, snap, w, envVars>>

-----------------------------------------------------------------------------
(* tryVoltSP.py *)

TryLocals == [zone |-> default_gcp_zone, exists |-> FALSE, childrc |-> NotExited,
              waited |-> "none", credentials |-> FALSE,
              action |-> "", gcp_project_id |-> "", proceed_with_existing |-> "",
              \* the inventory entry of the zone of the create command, when issued
              zone_held |-> "none"]

\* a plausible slip: the empty project ID let through
ProjectNeverMissing(gcp_project_id) == FALSE

\* if not gcp_project_id
ProjectMissing(gcp_project_id) == gcp_project_id = ""

\* the platform question and the project ID question
TryStart ==
    /\ pc["try"] = "start"
    /\ \E typed \in {"GKE", "eks"}, gcp_project_id \in {"", "my-project"} :
         LET action == get_user_input(typed, "gke")
         IN  IF Lower(action) # "gke"
               THEN /\ Terminate("try", 1, "SystemExit")
                    /\ gcp_project_id = ""
                    /\ loc' = [loc EXCEPT !["try"].action = action]
               ELSE /\ IF ProjectMissing(gcp_project_id)
                         THEN Terminate("try", 1, "SystemExit")
                         ELSE Goto("try", "set_project")
                    /\ loc' = [loc EXCEPT !["try"].action = action,
                                          !["try"].gcp_project_id = gcp_project_id]
    /\ UNCHANGED <<mode, argv, printed, issued, lastRun, files, run, snap, w, envVars>>

\* run_command("gcloud config set project ...")
TrySetProject ==
    /\ pc["try"] = "set_project"
    /\ \E ok \in BOOLEAN :
         /\ RunCommand("try", "gcloud config set project", ok, TRUE)
         /\ IF ok THEN Goto("try", "check") ELSE Terminate("try", 1, "SystemExit")
    /\ UNCHANGED <<mode, argv, loc, printed, files, run, snap, w, envVars>>

\* clusters of the entered name that were created before this run
ExtGke ==
    /\ pc["try"] = "check"
    /\ \E z \in Zones, s \in {"PROVISIONING", "RUNNING"} :
         /\ gke[z] = "ABSENT"
         /\ z # default_gcp_zone => s = "RUNNING"
         /\ gke' = [gke EXCEPT ![z] = s]
    /\ UNCHANGED <<mode, progVars, w, namespaces, releases, rp, topics, topicCfg,
                   sts, dep, secrets, rows>>

\* check_gke_cluster_exists(project, name, zone): the list command's output is the name
check_gke_cluster_exists(zone) == gke[zone] # "ABSENT"

\* cluster_exists_in_default_zone = check_gke_cluster_exists(..., default_gcp_zone)
TryCheckExists ==
    /\ pc["try"] = "check"
    /\ Issue("try", "gcloud container clusters list")
    /\ loc' = [loc EXCEPT !["try"].exists = check_gke_cluster_exists(default_gcp_zone)]
    /\ Goto("try", "branch")
    /\ UNCHANGED <<mode, argv, printed, files, run, snap, w, envVars>>

\* a plausible slip: only the answer 'no' taken as a refusal
DeclinedOnlyNo(proceed_with_existing) == proceed_with_existing = "no"

\* if proceed_with_existing.lower() != "yes"
Declined(proceed_with_existing) == Lower(proceed_with_existing) # "yes"

\* the cluster exists: proceed with it, or sys.exit(0)
TryProceed ==
    /\ pc["try"] = "branch" /\ loc["try"].exists
    /\ \E typed \in {"YES", "no", "y"} :
         LET proceed_with_existing == get_user_input(typed, "yes")
         IN  /\ IF Declined(proceed_with_existing)
                  THEN Terminate("try", 0, "SystemExit")
                  ELSE Goto("try", SkipGoesTo("try"))
             /\ loc' = [loc EXCEPT !["try"].proceed_with_existing = proceed_with_existing]
    /\ UNCHANGED <<mode, argv, printed, issued, lastRun, files, run, snap, w, envVars>>

\* the cluster does not exist in the default zone: ask for the zone and create it
TryCreate ==
    /\ pc["try"] = "branch" /\ ~loc["try"].exists
    /\ \E typed \in {"", "us-central1-a"}, ok \in BOOLEAN :
         LET gcp_zone == get_user_input(typed, default_gcp_zone)
         IN  /\ ok => gke[gcp_zone] = "ABSENT"
             /\ loc' = [loc EXCEPT !["try"].zone = gcp_zone,
                                    !["try"].zone_held = gke[gcp_zone]]
             /\ RunCommand("try", "gcloud container clusters create", ok, TRUE)
             /\ IF ok
                  THEN /\ \E s \in {"PROVISIONING", "RUNNING"} :
                            gke' = [gke EXCEPT ![gcp_zone] = s]
                       /\ Goto("try", "start_wait")
                  ELSE /\ UNCHANGED gke
                       /\ Terminate("try", 1, "SystemExit")
    /\ UNCHANGED <<mode, argv, printed, files, run, snap, w, namespaces, releases, rp,
                   topics, topicCfg, sts, dep, secrets, rows>>

\* wait_for_gke_cluster_ready(project, name, gcp_zone) is called
TryStartWait ==
    /\ pc["try"] = "start_wait"
    /\ w' = StartWait("gke", loc["try"].zone, GKE_TIMEOUT)
    /\ Goto("try", "wait")
    /\ UNCHANGED <<mode, argv, loc, printed, issued, lastRun, files, run, snap, envVars>>

\* if not wait_for_gke_cluster_ready(...): sys.exit(1)
TryAfterWait ==
    /\ pc["try"] = "wait" /\ w.fn = "gke" /\ w.pc = "done"
    /\ IF Proceeds(w.result)
         THEN Goto("try", "credentials")
         ELSE Terminate("try", 1, "SystemExit")
    /\ loc' = [loc EXCEPT !["try"].waited = w.result]
    /\ w' = NoWait
    /\ UNCHANGED <<mode, argv, printed, issued, lastRun, files, run, snap, envVars>>

\* run_command("gcloud container clusters get-credentials ...")
TryGetCredentials ==
    /\ pc["try"] = "credentials"
    /\ \E ok \in BOOLEAN :
         /\ RunCommand("try", "gcloud container clusters get-credentials", ok, TRUE)
         /\ loc' = [loc EXCEPT !["try"].credentials = ok]
         /\ IF ok THEN Goto("try", "choose") ELSE Terminate("try", 1, "SystemExit")
    /\ UNCHANGED <<mode, argv, printed, files, run, snap, w, envVars>>

\* the demo application menu; choice 1 starts vwap/vwap_setup.py
TryChoose ==
    /\ pc["try"] = "choose"
    /\ \E app_choice \in {"1", "2", "3"} :
         CASE app_choice = "1" ->
                Invoke("try", "vwap", << >>)
           [] app_choice = "2" ->
                /\ Terminate("try", 0, "none")
                /\ UNCHANGED argv
           [] OTHER ->
                /\ Terminate("try", 1, "SystemExit")
                /\ UNCHANGED argv
    /\ UNCHANGED <<mode, loc, printed, issued, lastRun, files, run, snap, w, envVars>>

TryChildReturn == ChildReturn("try", "vwap")

-----------------------------------------------------------------------------
(* vwap/vwap_setup.py *)

VwapLocals == [ns |-> "", release |-> "", exists |-> FALSE, topic_exists |-> FALSE,
               i |-> 0, childrc |-> NotExited,
               \* what happened so far, for the properties below
               status_ok |-> FALSE, decided |-> FALSE, rollout_successful |-> FALSE,
               waited |-> "none", altered |-> FALSE,
               \* what kubectl wrote to stderr in the attempt that ended the rollout loop
               rollout_stderr |-> "none"]

topic_name == "ticker-data"
max_retries == 5

\* helm repo add redpanda ...: "already exists" is tolerated, any other error exits
VwapRepoAdd ==
    /\ pc["vwap"] = "start"
    /\ Issue("vwap", "helm repo add")
    /\ loc' = [loc EXCEPT !["vwap"] =
                 IF run = 1 THEN VwapLocals
                 ELSE [VwapLocals EXCEPT !.ns = snap.ns, !.release = snap.release]]
    /\ \E out \in {"added", "already exists", "error"} :
         IF out = "error"
           THEN Terminate("vwap", 1, "SystemExit")
           ELSE Goto("vwap", "repo_update")
    /\ UNCHANGED <<mode, argv, printed, files, run, snap, w, envVars>>

\* helm repo update
VwapRepoUpdate ==
    /\ pc["vwap"] = "repo_update"
    /\ Issue("vwap", "helm repo update")
    /\ \E ok \in BOOLEAN :
         IF ok THEN Goto("vwap", "namespace") ELSE Terminate("vwap", 1, "SystemExit")
    /\ UNCHANGED <<mode, argv, loc, printed, files, run, snap, w, envVars>>

\* redpanda_namespace is asked for and create_namespace_if_not_exists applies it
VwapNamespace ==
    /\ pc["vwap"] = "namespace"
    /\ \E typed \in {"", "default"}, ok \in BOOLEAN :
         LET redpanda_namespace == get_user_input(typed, "default")
         IN  /\ run = 2 => redpanda_namespace = snap.ns
             /\ loc' = [loc EXCEPT !["vwap"].ns = redpanda_namespace]
             /\ RunCommand("vwap", "kubectl apply namespace", ok, TRUE)
             /\ IF ok
                  THEN /\ namespaces' = namespaces \cup {redpanda_namespace}
                       /\ Goto("vwap", "release")
                  ELSE /\ UNCHANGED namespaces
                       /\ Terminate("vwap", 1, "SystemExit")
    /\ UNCHANGED <<mode, argv, printed, files, run, snap, w, gke, releases, rp, topics,
                   topicCfg, sts, dep, secrets, rows>>

\* red_panda_release is asked for
VwapReleaseInput ==
    /\ pc["vwap"] = "release"
    /\ \E typed \in {"", "redpanda-cluster"} :
         loc' = [loc EXCEPT !["vwap"].release = get_user_input(typed, "redpanda-cluster")]
    /\ Goto("vwap", "helm_status")
    /\ UNCHANGED <<mode, argv, printed, issued, lastRun, files, run, snap, w, envVars>>

\* a Redpanda release of that name installed before this run, by someone else,
\* with any number of brokers, with or without the topic
ExtRedpanda ==
    /\ pc["vwap"] = "helm_status" /\ run = 1
    /\ <<loc["vwap"].release, loc["vwap"].ns>> \notin releases
    /\ \E b \in 1 .. MaxBrokers, t \in BOOLEAN :
         /\ releases' = releases \cup {<<loc["vwap"].release, loc["vwap"].ns>>}
         /\ rp' = [brokers |-> b, ready |-> 0, rev |-> 1]
         /\ topics' = IF t THEN {topic_name} ELSE {}
    /\ UNCHANGED <<mode, progVars, w, gke, namespaces, topicCfg, sts, dep, secrets, rows>>

\* helm status <release> -n <namespace> exits 0 exactly when the release exists
HelmStatus(release, namespace) == <<release, namespace>> \in releases

\* a plausible slip: the existence check's result ignored
NeverExists(release, namespace) == FALSE

\* helm_release_exists, from the exit status of helm status
HelmReleaseExists(release, namespace) == HelmStatus(release, namespace)

\* helm status red_panda_release -n redpanda_namespace
VwapHelmStatus ==
    /\ pc["vwap"] = "helm_status"
    /\ Issue("vwap", "helm status")
    /\ loc' = [loc EXCEPT !["vwap"].exists =
                              HelmReleaseExists(loc["vwap"].release, loc["vwap"].ns),
                          !["vwap"].status_ok =
                              HelmStatus(loc["vwap"].release, loc["vwap"].ns)]
    /\ Goto("vwap", "install")
    /\ UNCHANGED <<mode, argv, printed, files, run, snap, w, envVars>>

\* install_new_redpanda: helm upgrade --install ... --set statefulset.replicas=3
VwapInstall ==
    /\ pc["vwap"] = "install" /\ ~loc["vwap"].exists
    /\ \E ok \in BOOLEAN :
         /\ RunCommand("vwap", "helm upgrade --install", ok, TRUE)
         /\ loc' = [loc EXCEPT !["vwap"].decided = TRUE]
         /\ IF ok
              THEN /\ releases' = releases \cup {<<loc["vwap"].release, loc["vwap"].ns>>}
                   /\ rp' = [brokers |-> total_expected_pods, ready |-> 0,
                             rev |-> rp.rev + 1]
                   /\ Goto("vwap", "rollout")
              ELSE /\ UNCHANGED <<releases, rp>>
                   /\ Terminate("vwap", 1, "SystemExit")
    /\ UNCHANGED <<mode, argv, printed, files, run, snap, w, gke, namespaces, topics,
                   topicCfg, sts, dep, secrets, rows>>

\* the release exists: nothing is installed
VwapSkipInstall ==
    /\ pc["vwap"] = "install" /\ loc["vwap"].exists
    /\ loc' = [loc EXCEPT !["vwap"].decided = TRUE]
    /\ Goto("vwap", SkipGoesTo("vwap"))
    /\ UNCHANGED <<mode, argv, printed, issued, lastRun, files, run, snap, w, envVars>>

\* e.stderr of a CalledProcessError: None unless the output was captured
CapturedStderr(capture_output, text) == IF capture_output THEN text ELSE "<None>"

\* the except clause of the rollout loop, attempt i (0-based), for stderr text:
\* "retry", "exit" (sys.exit(1)) or "TypeError" ("NotFound" in None)
RolloutHandler(script, text, i) ==
    LET e_stderr == CapturedStderr(FALSE, text)
    IN  IF script = "vwap"
          THEN IF e_stderr = "<None>" THEN "TypeError"
               ELSE IF e_stderr = "NotFound" /\ i < max_retries - 1 THEN "retry"
               ELSE "exit"
          ELSE LET error_output_str == IF e_stderr = "<None>" THEN "" ELSE e_stderr
               IN  IF error_output_str = "NotFound" /\ i < max_retries - 1
                     THEN "retry" ELSE "exit"

\* one attempt of kubectl rollout status statefulset/<release> --timeout=600s
VwapRollout ==
    /\ pc["vwap"] = "rollout" /\ loc["vwap"].i < max_retries
    /\ Issue("vwap", "kubectl rollout status")
    /\ \E out \in {"ok", "NotFound", "error"} :
         /\ out = "ok" => (HelmStatus(loc["vwap"].release, loc["vwap"].ns) /\ rp.brokers > 0)
         /\ IF out = "ok"
              THEN /\ rp' = [rp EXCEPT !.ready = rp.brokers]
                   /\ Goto("vwap", "start_wait")
                   /\ loc' = [loc EXCEPT !["vwap"].rollout_successful = TRUE]
              ELSE /\ UNCHANGED rp
                   /\ LET h == RolloutHandler("vwap", out, loc["vwap"].i)
                      IN  IF h = "retry"
                            THEN /\ loc' = [loc EXCEPT !["vwap"].i = @ + 1]
                                 /\ Goto("vwap", "rollout")
                            ELSE /\ loc' = [loc EXCEPT !["vwap"].rollout_stderr = out]
                                 /\ Terminate("vwap", 1,
                                       IF h = "TypeError" THEN "TypeError" ELSE "SystemExit")
    /\ UNCHANGED <<mode, argv, printed, files, run, snap, w, gke, namespaces, releases,
                   topics, topicCfg, sts, dep, secrets, rows>>

\* wait_for_redpanda_pods_ready(red_panda_release, redpanda_namespace) is called
VwapStartWait ==
    /\ pc["vwap"] = "start_wait"
    /\ w' = StartWait("redpanda", default_gcp_zone, REDPANDA_TIMEOUT)
    /\ Goto("vwap", "wait")
    /\ UNCHANGED <<mode, argv, loc, printed, issued, lastRun, files, run, snap, envVars>>

\* if not wait_for_redpanda_pods_ready(...): sys.exit(1)
VwapAfterWait ==
    /\ pc["vwap"] = "wait" /\ w.fn = "redpanda" /\ w.pc = "done"
    /\ IF Proceeds(w.result)
         THEN Goto("vwap", "pod_name")
         ELSE Terminate("vwap", 1, "SystemExit")
    /\ loc' = [loc EXCEPT !["vwap"].waited = w.result]
    /\ w' = NoWait
    /\ UNCHANGED <<mode, argv, printed, issued, lastRun, files, run, snap, envVars>>

\* a plausible slip: the result of the topic check ignored
TopicNeverListed(ts) == FALSE

\* rpk topic list | grep -w topic_name exits 0: topic_exists_process.returncode == 0
TopicListed(ts) == topic_name \in ts

\* run_command(kubectl get pods ... jsonpath items[0].metadata.name); then the
\* topic check: kubectl exec ... rpk topic list | grep -w ticker-data
VwapTopicCheck ==
    /\ pc["vwap"] = "pod_name"
    /\ \E ok \in BOOLEAN :
         /\ RunCommand("vwap", "kubectl get pods", ok, TRUE)
         /\ IF ok
              THEN /\ loc' = [loc EXCEPT !["vwap"].topic_exists = TopicListed(topics)]
                   /\ Goto("vwap", IF TopicListed(topics) THEN "alter" ELSE "topic_create")
              ELSE /\ UNCHANGED loc
                   /\ Terminate("vwap", 1, "SystemExit")
    /\ UNCHANGED <<mode, argv, printed, files, run, snap, w, envVars>>

\* run_command(kubectl exec ... rpk topic create ticker-data ...)
VwapTopicCreate ==
    /\ pc["vwap"] = "topic_create"
    /\ \E ok \in BOOLEAN :
         /\ RunCommand("vwap", "rpk topic create", ok, TRUE)
         /\ IF ok
              THEN /\ topics' = topics \cup {topic_name}
                   /\ Goto("vwap", "alter")
              ELSE /\ UNCHANGED topics
                   /\ Terminate("vwap", 1, "SystemExit")
    /\ UNCHANGED <<mode, argv, loc, printed, files, run, snap, w, gke, namespaces, releases,
                   rp, topicCfg, sts, dep, secrets, rows>>

\* run_command(kubectl exec ... rpk topic alter-config ticker-data --set ...)
VwapAlter ==
    /\ pc["vwap"] = "alter"
    /\ \E ok \in BOOLEAN :
         /\ RunCommand("vwap", "rpk topic alter-config", ok, TRUE)
         /\ loc' = [loc EXCEPT !["vwap"].altered = ok]
         /\ IF ok
              THEN /\ topicCfg' = topicCfg \cup {topic_name}
                   /\ Goto("vwap", "invoke")
              ELSE /\ UNCHANGED topicCfg
                   /\ Terminate("vwap", 1, "SystemExit")
    /\ UNCHANGED <<mode, argv, printed, files, run, snap, w, gke, namespaces, releases,
                   rp, topics, sts, dep, secrets, rows>>

\* subprocess.run([sys.executable, voltdb_script_path, red_panda_release,
\*                 redpanda_namespace], check=True)
VwapInvoke ==
    /\ pc["vwap"] = "invoke"
    /\ Invoke("vwap", "core", <<loc["vwap"].release, loc["vwap"].ns>>)
    /\ UNCHANGED <<mode, loc, printed, issued, lastRun, files, run, snap, w, envVars>>

VwapChildReturn == ChildReturn("vwap", "core")

-----------------------------------------------------------------------------
(* The VoltDB core script (vwap/junk/voltdb_core_setuplat.py) *)

CoreLocals == [red_panda_release |-> "", redpanda_namespace |-> "", volt_ns |-> "",
               volt_cluster_name |-> "", exists |-> FALSE, status_ok |-> FALSE,
               install |-> FALSE, i |-> 0, childrc |-> NotExited, waited |-> "none",
               rollout_stderr |-> "none",
               \* at the existence check: every replica ready, and the rows of DUMMY
               all_ready |-> FALSE, rows_before |-> 0]

docker_secret_core == "dockerio-registry"

\* len(sys.argv) < 3 exits; otherwise the Redpanda details are read from sys.argv
CoreStart ==
    /\ pc["core"] = "start"
    /\ IF Len(argv["core"]) < 3
         THEN /\ Terminate("core", 1, "SystemExit")
              /\ loc' = [loc EXCEPT !["core"] = CoreLocals]
         ELSE /\ Goto("core", "repo_add")
              /\ loc' = [loc EXCEPT !["core"] =
                           [CoreLocals EXCEPT !.red_panda_release = Arg("core", 1),
                                              !.redpanda_namespace = Arg("core", 2)]]
    /\ UNCHANGED <<mode, argv, printed, issued, lastRun, files, run, snap, w, envVars>>

\* helm repo add voltdb ...
CoreRepoAdd ==
    /\ pc["core"] = "repo_add"
    /\ Issue("core", "helm repo add")
    /\ \E out \in {"added", "already exists", "error"} :
         IF out = "error"
           THEN Terminate("core", 1, "SystemExit")
           ELSE Goto("core", "repo_update")
    /\ UNCHANGED <<mode, argv, loc, printed, files, run, snap, w, envVars>>

\* helm repo update
CoreRepoUpdate ==
    /\ pc["core"] = "repo_update"
    /\ Issue("core", "helm repo update")
    /\ \E ok \in BOOLEAN :
         IF ok THEN Goto("core", "namespace") ELSE Terminate("core", 1, "SystemExit")
    /\ UNCHANGED <<mode, argv, loc, printed, files, run, snap, w, envVars>>

\* volt_ns is asked for and ensured; volt_cluster_name is asked for
CoreNamespace ==
    /\ pc["core"] = "namespace"
    /\ \E typed \in {"", "voltdb"}, ok \in BOOLEAN :
         LET volt_ns == get_user_input(typed, "voltdb")
         IN  /\ loc' = [loc EXCEPT !["core"].volt_ns = volt_ns,
                                   !["core"].volt_cluster_name =
                                       get_user_input("", "volt-vwap")]
             /\ RunCommand("core", "kubectl apply namespace", ok, TRUE)
             /\ IF ok
                  THEN /\ namespaces' = namespaces \cup {volt_ns}
                       /\ Goto("core", "helm_status")
                  ELSE /\ UNCHANGED namespaces
                       /\ Terminate("core", 1, "SystemExit")
    /\ UNCHANGED <<mode, argv, printed, files, run, snap, w, gke, releases, rp, topics,
                   topicCfg, sts, dep, secrets, rows>>

CoreRelease == <<loc["core"].volt_cluster_name, loc["core"].volt_ns>>

\* a VoltDB release of that name installed before this run, its StatefulSet in any state
ExtVoltdb ==
    /\ pc["core"] = "helm_status" /\ run = 1
    /\ CoreRelease \notin releases
    /\ releases' = releases \cup {CoreRelease}
    /\ \E e \in BOOLEAN, n \in 0 .. MaxReplicas, r \in 0 .. MaxReplicas :
         /\ r <= n
         /\ ~e => (n = 0 /\ r = 0)
         /\ sts' = IF e THEN [exists |-> TRUE, replicas |-> n, ready |-> r]
                   ELSE [exists |-> FALSE, replicas |-> Absent, ready |-> Absent]
    /\ UNCHANGED <<mode, progVars, w, gke, namespaces, rp, topics, topicCfg, dep,
                   secrets, rows>>

\* check_statefulset_exists_and_ready: True if fully ready or ready_replicas > 0
check_statefulset_exists_and_ready ==
    /\ sts.exists
    /\ LET ready_replicas == GetOr(sts.ready, 0)
           desired_replicas == GetOr(sts.replicas, 0)
       IN  ReplicasReady(desired_replicas, ready_replicas) \/ ready_replicas > 0

\* helm status, and for an existing release the StatefulSet check
CoreHelmStatus ==
    /\ pc["core"] = "helm_status"
    /\ Issue("core", "helm status")
    /\ LET exists == HelmReleaseExists(loc["core"].volt_cluster_name, loc["core"].volt_ns)
           healthy == check_statefulset_exists_and_ready
       IN  /\ loc' = [loc EXCEPT !["core"].exists = exists,
                                 !["core"].status_ok = HelmStatus(CoreRelease[1], CoreRelease[2]),
                                 !["core"].install = ~exists,
                                 !["core"].all_ready =
                                     sts.exists /\ sts.replicas = sts.ready
                                                /\ sts.replicas # Absent /\ sts.replicas > 0,
                                 !["core"].rows_before = rows]
           /\ Goto("core", IF ~exists THEN "secret"
                           ELSE IF healthy THEN "wait_object" ELSE "ask_uninstall")
    /\ UNCHANGED <<mode, argv, printed, files, run, snap, w, envVars>>

\* the release exists but its StatefulSet is missing or unhealthy:
\* (1) helm uninstall, with exit_on_error=False, then install; (2) sys.exit(0)
CoreAskUninstall ==
    /\ pc["core"] = "ask_uninstall"
    /\ \E typed \in {"", "2"}, ok \in BOOLEAN :
         IF get_user_input(typed, "1") = "1"
           THEN /\ RunCommand("core", "helm uninstall", ok, FALSE)
                /\ IF ok
                     THEN /\ releases' = releases \ {CoreRelease}
                          /\ sts' = [exists |-> FALSE, replicas |-> Absent, ready |-> Absent]
                     ELSE UNCHANGED <<releases, sts>>
                /\ loc' = [loc EXCEPT !["core"].install = TRUE]
                /\ Goto("core", "secret")
           ELSE /\ UNCHANGED <<issued, lastRun, releases, sts, loc>>
                /\ Terminate("core", 0, "SystemExit")
    /\ UNCHANGED <<mode, argv, printed, files, run, snap, w, gke, namespaces, rp, topics,
                   topicCfg, dep, secrets, rows>>

\* check_kubernetes_secret_exists(secret_name, namespace)
check_kubernetes_secret_exists(secret_name, namespace) ==
    <<secret_name, namespace>> \in secrets

\* the docker-registry secret question, then the version and file questions with
\* their os.path.exists checks
CoreSecret ==
    /\ pc["core"] = "secret"
    /\ \E typed \in {"", "no"}, ok \in BOOLEAN, files_exist \in BOOLEAN :
         LET create_secret == get_user_input(typed, "yes")
             need == /\ Lower(create_secret) = "yes"
                     /\ ~check_kubernetes_secret_exists(docker_secret_core, loc["core"].volt_ns)
         IN  /\ IF need
                  THEN RunCommand("core", "kubectl create secret", ok, TRUE)
                  ELSE ok /\ UNCHANGED <<issued, lastRun>>
             /\ secrets' = IF need /\ ok
                             THEN secrets \cup {<<docker_secret_core, loc["core"].volt_ns>>}
                             ELSE secrets
             /\ IF ok /\ files_exist
                  THEN Goto("core", "install")
                  ELSE Terminate("core", 1, "SystemExit")
    /\ UNCHANGED <<mode, argv, loc, printed, files, run, snap, w, gke, namespaces, releases,
                   rp, topics, topicCfg, sts, dep, rows>>

\* run_command(helm install volt_cluster_name voltdb/voltdb ...); time.sleep(10)
CoreInstall ==
    /\ pc["core"] = "install"
    /\ \E ok \in BOOLEAN :
         /\ ok => CoreRelease \notin releases
         /\ RunCommand("core", "helm install", ok, TRUE)
         /\ IF ok
              THEN /\ releases' = releases \cup {CoreRelease}
                   /\ Goto("core", "wait_object")
              ELSE /\ UNCHANGED releases
                   /\ Terminate("core", 1, "SystemExit")
    /\ UNCHANGED <<mode, argv, loc, printed, files, run, snap, w, gke, namespaces, rp,
                   topics, topicCfg, sts, dep, secrets, rows>>

\* wait_for_statefulset_object_to_exist(statefulset_to_wait_for, volt_ns) is called
CoreStartWaitObject ==
    /\ pc["core"] = "wait_object"
    /\ w' = StartWait("stsobj", default_gcp_zone, STSOBJ_TIMEOUT)
    /\ Goto("core", "waiting_object")
    /\ UNCHANGED <<mode, argv, loc, printed, issued, lastRun, files, run, snap, envVars>>

\* if not wait_for_statefulset_object_to_exist(...): sys.exit(1); time.sleep(5)
CoreAfterWaitObject ==
    /\ pc["core"] = "waiting_object" /\ w.fn = "stsobj" /\ w.pc = "done"
    /\ IF Proceeds(w.result)
         THEN Goto("core", "rollout")
         ELSE Terminate("core", 1, "SystemExit")
    /\ w' = NoWait
    /\ UNCHANGED <<mode, argv, loc, printed, issued, lastRun, files, run, snap, envVars>>

\* one attempt of kubectl rollout status statefulset/<name>-voltdb-cluster --timeout=900s
CoreRollout ==
    /\ pc["core"] = "rollout" /\ loc["core"].i < max_retries
    /\ Issue("core", "kubectl rollout status")
    /\ \E out \in {"ok", "NotFound", "error"} :
         /\ out = "ok" => (sts.exists /\ GetOr(sts.replicas, 0) > 0)
         /\ IF out = "ok"
              THEN /\ sts' = [sts EXCEPT !.ready = sts.replicas]
                   /\ Goto("core", "start_wait")
                   /\ UNCHANGED loc
              ELSE /\ UNCHANGED sts
                   /\ LET h == RolloutHandler("core", out, loc["core"].i)
                      IN  IF h = "retry"
                            THEN /\ loc' = [loc EXCEPT !["core"].i = @ + 1]
                                 /\ Goto("core", "rollout")
                            ELSE /\ loc' = [loc EXCEPT !["core"].rollout_stderr = out]
                                 /\ Terminate("core", 1,
                                       IF h = "TypeError" THEN "TypeError" ELSE "SystemExit")
    /\ UNCHANGED <<mode, argv, printed, files, run, snap, w, gke, namespaces, releases,
                   rp, topics, topicCfg, dep, secrets, rows>>

\* wait_for_voltdb_cluster_ready(volt_cluster_name, volt_ns) is called
CoreStartWait ==
    /\ pc["core"] = "start_wait"
    /\ w' = StartWait("voltdb", default_gcp_zone, VOLTDB_TIMEOUT)
    /\ Goto("core", "wait")
    /\ UNCHANGED <<mode, argv, loc, printed, issued, lastRun, files, run, snap, envVars>>

\* if not wait_for_voltdb_cluster_ready(...): sys.exit(1)
CoreAfterWait ==
    /\ pc["core"] = "wait" /\ w.fn = "voltdb" /\ w.pc = "done"
    /\ IF Proceeds(w.result)
         THEN Goto("core", "insert")
         ELSE Terminate("core", 1, "SystemExit")
    /\ loc' = [loc EXCEPT !["core"].waited = w.result]
    /\ w' = NoWait
    /\ UNCHANGED <<mode, argv, printed, issued, lastRun, files, run, snap, envVars>>

\* run_command(kubectl exec ... sqlcmd --query="insert into DUMMY values 'X';")
CoreInsert ==
    /\ pc["core"] = "insert"
    /\ \E ok \in BOOLEAN :
         /\ RunCommand("core", "sqlcmd insert", ok, TRUE)
         /\ IF ok
              THEN /\ rows' = rows + 1
                   /\ Goto("core", "invoke")
              ELSE /\ UNCHANGED rows
                   /\ Terminate("core", 1, "SystemExit")
    /\ UNCHANGED <<mode, argv, loc, printed, files, run, snap, w, gke, namespaces, releases,
                   rp, topics, topicCfg, sts, dep, secrets>>

\* a plausible slip: the two namespaces passed in each other's place
CoreChildArgsSwapped ==
    <<loc["core"].red_panda_release, loc["core"].volt_ns,
      loc["core"].volt_cluster_name, loc["core"].redpanda_namespace>>

\* [..., red_panda_release, redpanda_namespace, volt_cluster_name, volt_ns]
CoreChildArgs ==
    <<loc["core"].red_panda_release, loc["core"].redpanda_namespace,
      loc["core"].volt_cluster_name, loc["core"].volt_ns>>

\* subprocess.run([sys.executable, voltsp_script_path, ...], check=True)
CoreInvoke ==
    /\ pc["core"] = "invoke"
    /\ Invoke("core", "voltsp", CoreChildArgs)
    /\ UNCHANGED <<mode, loc, printed, issued, lastRun, files, run, snap, w, envVars>>

CoreChildReturn == ChildReturn("core", "voltsp")

-----------------------------------------------------------------------------
(* vwap/voltsp_setup.py *)

VoltspLocals == [red_panda_release |-> "", redpanda_namespace |-> "",
                 volt_cluster_name |-> "", volt_ns |-> "", pipeline_name |-> "",
                 voltsp_ns |-> "", exists |-> FALSE, status_ok |-> FALSE,
                 made |-> {}, childrc |-> NotExited,
                 decided |-> FALSE, waited |-> "none"]

docker_secret_voltsp == "voltsp-docker-registry-secret"

\* a plausible slip: the cleanup left out of the finally block
FinallyKeeps(temp_file) == files

\* finally: if temp_file and os.path.exists(path): os.remove(path)
Finally(temp_file) == files \ {temp_file}

\* len(sys.argv) < 5 exits; otherwise sys.argv[1..4] are read, and the pipeline name
\* and the VoltSP namespace (default: volt_ns) are asked for
VoltspStart ==
    /\ pc["voltsp"] = "start"
    /\ IF ArgsMissing(argv["voltsp"], 4)
         THEN /\ Terminate("voltsp", 1, "SystemExit")
              /\ Say("voltsp", "missing arguments")
              /\ loc' = [loc EXCEPT !["voltsp"] = VoltspLocals]
         ELSE IF Len(argv["voltsp"]) < 5
         THEN \* sys.argv[4] of a shorter list
              /\ Terminate("voltsp", 1, "IndexError")
              /\ UNCHANGED printed
              /\ loc' = [loc EXCEPT !["voltsp"] = VoltspLocals]
         ELSE /\ Goto("voltsp", "namespace")
              /\ Say("voltsp", "prompt")
              /\ \E typed \in {"", "voltsp"} :
                   loc' = [loc EXCEPT !["voltsp"] =
                             [VoltspLocals EXCEPT
                                !.red_panda_release = Arg("voltsp", 1),
                                !.redpanda_namespace = Arg("voltsp", 2),
                                !.volt_cluster_name = Arg("voltsp", 3),
                                !.volt_ns = Arg("voltsp", 4),
                                !.pipeline_name = get_user_input("", "pipeline1"),
                                !.voltsp_ns = get_user_input(typed, Arg("voltsp", 4))]]
    /\ UNCHANGED <<mode, argv, issued, lastRun, files, run, snap, w, envVars>>

\* create_namespace_if_not_exists(voltsp_ns)
VoltspNamespace ==
    /\ pc["voltsp"] = "namespace"
    /\ \E ok \in BOOLEAN :
         /\ RunCommand("voltsp", "kubectl apply namespace", ok, TRUE)
         /\ IF ok
              THEN /\ namespaces' = namespaces \cup {loc["voltsp"].voltsp_ns}
                   /\ Goto("voltsp", "secret")
              ELSE /\ UNCHANGED namespaces
                   /\ Terminate("voltsp", 1, RunCommandOutcome("voltsp", ok, TRUE))
    /\ UNCHANGED <<mode, argv, loc, printed, files, run, snap, w, gke, releases, rp, topics,
                   topicCfg, sts, dep, secrets, rows>>

\* the docker-registry secret question, then the license and JAR questions with
\* their os.path.exists checks
VoltspSecret ==
    /\ pc["voltsp"] = "secret"
    /\ \E typed \in {"", "no"}, ok \in BOOLEAN, files_exist \in BOOLEAN :
         LET create_secret == get_user_input(typed, "yes")
             need == /\ Lower(create_secret) = "yes"
                     /\ ~check_kubernetes_secret_exists(docker_secret_voltsp,
                                                        loc["voltsp"].voltsp_ns)
         IN  /\ IF need
                  THEN RunCommand("voltsp", "kubectl create secret", ok, TRUE)
                  ELSE ok /\ UNCHANGED <<issued, lastRun>>
             /\ secrets' = IF need /\ ok
                             THEN secrets \cup {<<docker_secret_voltsp, loc["voltsp"].voltsp_ns>>}
                             ELSE secrets
             /\ IF ~ok
                  THEN Terminate("voltsp", 1, RunCommandOutcome("voltsp", ok, TRUE))
                  ELSE IF files_exist
                    THEN Goto("voltsp", "temp_file")
                    ELSE Terminate("voltsp", 1, "SystemExit")
    /\ UNCHANGED <<mode, argv, loc, printed, files, run, snap, w, gke, namespaces, releases,
                   rp, topics, topicCfg, sts, dep, rows>>

\* try: the values file is created with NamedTemporaryFile(delete=False) and written.
\* Creating it may raise before the name is bound; writing it may raise after.
VoltspTempFile ==
    /\ pc["voltsp"] = "temp_file"
    /\ \E out \in {"written", "create raises", "write raises"} :
         CASE out = "written" ->
                /\ files' = files \cup {"voltsp values"}
                /\ loc' = [loc EXCEPT !["voltsp"].made = @ \cup {"voltsp values"}]
                /\ Goto("voltsp", "helm_status")
           [] out = "create raises" ->
                /\ UNCHANGED <<files, loc>>
                /\ Terminate("voltsp", 1, "OSError")
           [] out = "write raises" ->
                /\ files' = Finally("voltsp values")
                /\ loc' = [loc EXCEPT !["voltsp"].made = @ \cup {"voltsp values"}]
                /\ Terminate("voltsp", 1, "OSError")
    /\ UNCHANGED <<mode, argv, printed, issued, lastRun, run, snap, w, envVars>>

VoltspRelease == <<loc["voltsp"].pipeline_name, loc["voltsp"].voltsp_ns>>

\* a pipeline release of that name installed before this run, its Deployment in any state
ExtVoltsp ==
    /\ pc["voltsp"] = "helm_status" /\ run = 1
    /\ VoltspRelease \notin releases
    /\ releases' = releases \cup {VoltspRelease}
    /\ \E n \in 0 .. MaxReplicas, r \in 0 .. MaxReplicas :
         /\ r <= n
         /\ dep' = [exists |-> TRUE, replicas |-> n, ready |-> r]
    /\ UNCHANGED <<mode, progVars, w, gke, namespaces, rp, topics, topicCfg, sts,
                   secrets, rows>>

\* helm status pipeline_name -n voltsp_ns
VoltspHelmStatus ==
    /\ pc["voltsp"] = "helm_status"
    /\ Issue("voltsp", "helm status")
    /\ loc' = [loc EXCEPT !["voltsp"].exists =
                              HelmReleaseExists(VoltspRelease[1], VoltspRelease[2]),
                          !["voltsp"].status_ok = HelmStatus(VoltspRelease[1], VoltspRelease[2])]
    /\ Goto("voltsp", "install")
    /\ UNCHANGED <<mode, argv, printed, files, run, snap, w, envVars>>

\* run_command(helm install pipeline_name voltdb/volt-streams ...), inside the try
VoltspInstall ==
    /\ pc["voltsp"] = "install" /\ ~loc["voltsp"].exists
    /\ \E ok \in BOOLEAN :
         /\ ok => VoltspRelease \notin releases
         /\ RunCommand("voltsp", "helm install", ok, TRUE)
         /\ loc' = [loc EXCEPT !["voltsp"].decided = TRUE]
         /\ IF ok
              THEN /\ releases' = releases \cup {VoltspRelease}
                   /\ dep' = [exists |-> TRUE, replicas |-> 1, ready |-> 0]
                   /\ UNCHANGED files
                   /\ Goto("voltsp", "start_wait")
              ELSE /\ UNCHANGED <<releases, dep>>
                   /\ files' = Finally("voltsp values")
                   /\ Terminate("voltsp", 1, RunCommandOutcome("voltsp", ok, TRUE))
    /\ UNCHANGED <<mode, argv, printed, run, snap, w, gke, namespaces, rp, topics,
                   topicCfg, sts, secrets, rows>>

\* the release exists: installation is skipped
VoltspSkipInstall ==
    /\ pc["voltsp"] = "install" /\ loc["voltsp"].exists
    /\ loc' = [loc EXCEPT !["voltsp"].decided = TRUE]
    /\ Goto("voltsp", SkipGoesTo("voltsp"))
    /\ UNCHANGED <<mode, argv, printed, issued, lastRun, files, run, snap, w, envVars>>

\* wait_for_voltsp_deployment_ready(pipeline_name, voltsp_ns) is called
VoltspStartWait ==
    /\ pc["voltsp"] = "start_wait"
    /\ w' = StartWait("voltsp", default_gcp_zone, VOLTSP_TIMEOUT)
    /\ Goto("voltsp", "wait")
    /\ UNCHANGED <<mode, argv, loc, printed, issued, lastRun, files, run, snap, envVars>>

\* if not wait_for_voltsp_deployment_ready(...): sys.exit(1); then the finally block
VoltspAfterWait ==
    /\ pc["voltsp"] = "wait" /\ w.fn = "voltsp" /\ w.pc = "done"
    /\ IF Proceeds(w.result)
         THEN Goto("voltsp", "invoke")
         ELSE Terminate("voltsp", 1, "SystemExit")
    /\ loc' = [loc EXCEPT !["voltsp"].waited = w.result]
    /\ files' = Finally("voltsp values")
    /\ w' = NoWait
    /\ UNCHANGED <<mode, argv, printed, issued, lastRun, run, snap, envVars>>

\* a plausible slip: the load generator's namespace and VoltDB's in each other's place
VoltspChildArgsSwapped ==
    <<loc["voltsp"].volt_ns, loc["voltsp"].redpanda_namespace, loc["voltsp"].voltsp_ns>>

\* [..., voltsp_ns, redpanda_namespace, volt_ns]
VoltspChildArgs ==
    <<loc["voltsp"].voltsp_ns, loc["voltsp"].redpanda_namespace, loc["voltsp"].volt_ns>>

\* subprocess.run([sys.executable, vwap_loadgen_script_path, ...], check=True)
VoltspInvoke ==
    /\ pc["voltsp"] = "invoke"
    /\ Invoke("voltsp", "loadgen", VoltspChildArgs)
    /\ UNCHANGED <<mode, loc, printed, issued, lastRun, files, run, snap, w, envVars>>

VoltspChildReturn == ChildReturn("voltsp", "loadgen")

-----------------------------------------------------------------------------
(* vwap/vwap_loadgen_setup.py *)

LoadgenLocals == [loadgen_ns |-> "", redpanda_namespace |-> "", volt_ns |-> "",
                  made |-> {}]

\* len(sys.argv) < 4 exits; otherwise sys.argv[1..3] are read
LoadgenStart ==
    /\ pc["loadgen"] = "start"
    /\ IF ArgsMissing(argv["loadgen"], 3)
         THEN /\ Terminate("loadgen", 1, "SystemExit")
              /\ Say("loadgen", "missing arguments")
              /\ loc' = [loc EXCEPT !["loadgen"] = LoadgenLocals]
         ELSE IF Len(argv["loadgen"]) < 4
         THEN \* sys.argv[3] of a shorter list
              /\ Terminate("loadgen", 1, "IndexError")
              /\ UNCHANGED printed
              /\ loc' = [loc EXCEPT !["loadgen"] = LoadgenLocals]
         ELSE /\ Goto("loadgen", "prerequisites")
              /\ UNCHANGED printed
              /\ loc' = [loc EXCEPT !["loadgen"] =
                           [LoadgenLocals EXCEPT !.loadgen_ns = Arg("loadgen", 1),
                                                 !.redpanda_namespace = Arg("loadgen", 2),
                                                 !.volt_ns = Arg("loadgen", 3)]]
    /\ UNCHANGED <<mode, argv, issued, lastRun, files, run, snap, w, envVars>>

\* yq --version must succeed, and the Job YAML file must exist
LoadgenPrerequisites ==
    /\ pc["loadgen"] = "prerequisites"
    /\ Issue("loadgen", "yq --version")
    /\ \E yq_ok \in BOOLEAN, job_exists \in BOOLEAN :
         /\ IF yq_ok /\ job_exists
              THEN Goto("loadgen", "config_file")
              ELSE Terminate("loadgen", 1, "SystemExit")
         /\ IF yq_ok THEN Say("loadgen", "prompt") ELSE UNCHANGED printed
    /\ UNCHANGED <<mode, argv, loc, files, run, snap, w, envVars>>

\* try: the ConfigMap is generated, written to a NamedTemporaryFile(delete=False)
LoadgenConfigFile ==
    /\ pc["loadgen"] = "config_file"
    /\ \E out \in {"written", "create raises", "write raises"} :
         CASE out = "written" ->
                /\ files' = files \cup {"loadgen config"}
                /\ loc' = [loc EXCEPT !["loadgen"].made = @ \cup {"loadgen config"}]
                /\ Goto("loadgen", "config_apply")
           [] out = "create raises" ->
                /\ UNCHANGED <<files, loc>>
                /\ Terminate("loadgen", 1, "OSError")
           [] out = "write raises" ->
                /\ files' = Finally("loadgen config")
                /\ loc' = [loc EXCEPT !["loadgen"].made = @ \cup {"loadgen config"}]
                /\ Terminate("loadgen", 1, "OSError")
    /\ UNCHANGED <<mode, argv, printed, issued, lastRun, run, snap, w, envVars>>

\* run_command(kubectl apply -f temp_config_path); finally: the file is removed
LoadgenConfigApply ==
    /\ pc["loadgen"] = "config_apply"
    /\ \E ok \in BOOLEAN :
         /\ RunCommand("loadgen", "kubectl apply configmap", ok, TRUE)
         /\ IF ok THEN Goto("loadgen", "job_yq") ELSE Terminate("loadgen", 1, "SystemExit")
    /\ files' = Finally("loadgen config")
    /\ UNCHANGED <<mode, argv, loc, printed, run, snap, w, envVars>>

\* try: run_command(yq e '.metadata.namespace = ...' job.yaml), its output written
\* to a second NamedTemporaryFile(delete=False)
LoadgenJobFile ==
    /\ pc["loadgen"] = "job_yq"
    /\ \E ok \in BOOLEAN, out \in {"written", "create raises", "write raises"} :
         /\ RunCommand("loadgen", "yq e", ok, TRUE)
         /\ IF ~ok
              THEN /\ out = "written"
                   /\ UNCHANGED <<files, loc>>
                   /\ Terminate("loadgen", 1, "SystemExit")
              ELSE CASE out = "written" ->
                          /\ files' = files \cup {"loadgen job"}
                          /\ loc' = [loc EXCEPT !["loadgen"].made = @ \cup {"loadgen job"}]
                          /\ Goto("loadgen", "job_apply")
                     [] out = "create raises" ->
                          /\ UNCHANGED <<files, loc>>
                          /\ Terminate("loadgen", 1, "OSError")
                     [] out = "write raises" ->
                          /\ files' = Finally("loadgen job")
                          /\ loc' = [loc EXCEPT !["loadgen"].made = @ \cup {"loadgen job"}]
                          /\ Terminate("loadgen", 1, "OSError")
    /\ UNCHANGED <<mode, argv, printed, run, snap, w, envVars>>

\* run_command(kubectl apply -f temp_job_path); finally: the file is removed; main ends
LoadgenJobApply ==
    /\ pc["loadgen"] = "job_apply"
    /\ \E ok \in BOOLEAN :
         /\ RunCommand("loadgen", "kubectl apply job", ok, TRUE)
         /\ IF ok THEN Terminate("loadgen", 0, "none") ELSE Terminate("loadgen", 1, "SystemExit")
    /\ files' = Finally("loadgen job")
    /\ UNCHANGED <<mode, argv, loc, printed, run, snap, w, envVars>>

-----------------------------------------------------------------------------
(* Spec: the user runs tryVoltSP.py.
   SpecRerun: the user runs vwap_setup.py, and after a run that exited 0 runs it
   a second time with the same answers. *)

\* Redpanda's part of the cluster: namespace, Helm release and revision, topics
RedpandaStage(ns, release) ==
    [ns |-> ns, release |-> release,
     namespace |-> ns \in namespaces,
     installed |-> <<release, ns>> \in releases,
     rev |-> rp.rev, brokers |-> rp.brokers,
     topics |-> topics, topicCfg |-> topicCfg]

Descendants == {"core", "voltsp", "loadgen"}

\* python vwap_setup.py, a second time, after a first run that exited 0
RerunVwap ==
    /\ mode = "chain" /\ run = 1
    /\ pc["vwap"] = "exited" /\ exitCode["vwap"] = 0
    /\ run' = 2
    /\ snap' = RedpandaStage(loc["vwap"].ns, loc["vwap"].release)
    /\ pc' = [s \in Scripts |->
                IF s = "vwap" THEN "start" ELSE IF s \in Descendants THEN "idle" ELSE pc[s]]
    /\ exitCode' = [s \in Scripts |->
                      IF s \in Descendants \cup {"vwap"} THEN NotExited ELSE exitCode[s]]
    /\ raised' = [s \in Scripts |->
                    IF s \in Descendants \cup {"vwap"} THEN "none" ELSE raised[s]]
    /\ printed' = [s \in Scripts |->
                     IF s \in Descendants \cup {"vwap"} THEN {} ELSE printed[s]]
    /\ argv' = [s \in Scripts |->
                  IF s = "vwap" THEN <<"vwap">> ELSE IF s \in Descendants THEN << >> ELSE argv[s]]
    /\ loc' = [s \in Scripts |->
                 IF s \in Descendants \cup {"vwap"} THEN NoLocals ELSE loc[s]]
    /\ lastRun' = NoRun
    /\ UNCHANGED <<mode, issued, files, w, envVars>>

InitCluster ==
    /\ w = NoWait
    /\ gke = [z \in Zones |-> "ABSENT"]
    /\ namespaces = {"default"}
    /\ releases = {}
    /\ rp = [brokers |-> 0, ready |-> 0, rev |-> 0]
    /\ topics = {}
    /\ topicCfg = {}
    /\ sts = [exists |-> FALSE, replicas |-> Absent, ready |-> Absent]
    /\ dep = [exists |-> FALSE, replicas |-> Absent, ready |-> Absent]
    /\ secrets = {}
    /\ rows = 0

\* every script idle but the one the user starts, with the arguments the user gives
InitScriptsArgs(first, args) ==
    /\ pc = [s \in Scripts |-> IF s = first THEN "start" ELSE "idle"]
    /\ exitCode = [s \in Scripts |-> NotExited]
    /\ raised = [s \in Scripts |-> "none"]
    /\ argv = [s \in Scripts |-> IF s = first THEN <<first>> \o args ELSE << >>]
    /\ loc = [s \in Scripts |-> IF s = "try" THEN TryLocals ELSE NoLocals]
    /\ printed = [s \in Scripts |-> {}]
    /\ issued = {}
    /\ lastRun = NoRun
    /\ files = {}
    /\ run = 1
    /\ snap = NoSnap

InitScripts(first) == InitScriptsArgs(first, << >>)

Init == mode = "chain" /\ InitScripts("try") /\ InitCluster

InitRerun == mode = "chain" /\ InitScripts("vwap") /\ InitCluster

TryNext ==
    \/ TryStart \/ TrySetProject \/ ExtGke \/ TryCheckExists \/ TryProceed
    \/ TryCreate \/ TryStartWait \/ TryAfterWait \/ TryGetCredentials \/ TryChoose
    \/ TryChildReturn \/ EnvGke

StagesNext ==
    \/ VwapRepoAdd \/ VwapRepoUpdate \/ VwapNamespace \/ VwapReleaseInput
    \/ ExtRedpanda \/ VwapHelmStatus \/ VwapInstall \/ VwapSkipInstall \/ VwapRollout
    \/ VwapStartWait \/ VwapAfterWait \/ VwapTopicCheck \/ VwapTopicCreate \/ VwapAlter
    \/ VwapInvoke \/ VwapChildReturn
    \/ CoreStart \/ CoreRepoAdd \/ CoreRepoUpdate \/ CoreNamespace \/ ExtVoltdb
    \/ CoreHelmStatus \/ CoreAskUninstall \/ CoreSecret \/ CoreInstall
    \/ CoreStartWaitObject \/ CoreAfterWaitObject \/ CoreRollout \/ CoreStartWait
    \/ CoreAfterWait \/ CoreInsert \/ CoreInvoke \/ CoreChildReturn
    \/ VoltspStart \/ VoltspNamespace \/ VoltspSecret \/ VoltspTempFile \/ ExtVoltsp
    \/ VoltspHelmStatus \/ VoltspInstall \/ VoltspSkipInstall \/ VoltspStartWait
    \/ VoltspAfterWait \/ VoltspInvoke \/ VoltspChildReturn
    \/ LoadgenStart \/ LoadgenPrerequisites \/ LoadgenConfigFile \/ LoadgenConfigApply
    \/ LoadgenJobFile \/ LoadgenJobApply
    \/ WaitCheck \/ WaitPoll \/ WaitSleep
    \/ EnvPods \/ EnvDeployment \/ EnvStatefulSet

Next == TryNext \/ StagesNext

NextRerun == StagesNext \/ RerunVwap

Spec == Init /\ [][Next]_vars

SpecRerun == InitRerun /\ [][NextRerun]_vars

(* SpecDirect: the user runs voltsp_setup.py or vwap_loadgen_setup.py from a shell,
   with all of the positional arguments or only the first few *)

\* the positional arguments each script expects
Needed == [voltsp |-> 4, loadgen |-> 3]

DirectArgs == [voltsp |-> <<"redpanda-cluster", "default", "volt-vwap", "voltdb">>,
               loadgen |-> <<"voltsp", "default", "voltdb">>]

InitDirect ==
    /\ mode = "chain"
    /\ InitCluster
    /\ \E first \in DOMAIN DirectArgs :
         \E n \in 0 .. Len(DirectArgs[first]) :
            InitScriptsArgs(first, SubSeq(DirectArgs[first], 1, n))

NextDirect ==
    \/ VoltspStart \/ VoltspNamespace \/ VoltspSecret \/ VoltspTempFile \/ ExtVoltsp
    \/ VoltspHelmStatus \/ VoltspInstall \/ VoltspSkipInstall \/ VoltspStartWait
    \/ VoltspAfterWait \/ VoltspInvoke \/ VoltspChildReturn
    \/ LoadgenStart \/ LoadgenPrerequisites \/ LoadgenConfigFile \/ LoadgenConfigApply
    \/ LoadgenJobFile \/ LoadgenJobApply
    \/ WaitCheck \/ WaitPoll \/ WaitSleep \/ EnvDeployment

SpecDirect == InitDirect /\ [][NextDirect]_vars

-----------------------------------------------------------------------------
(* SpecWait: the waits called directly *)

Timeouts(fn) == {k * (SleepInterval(fn) \div 2) : k \in 0 .. MaxTimeoutHalves}


InitWait ==
    /\ mode = "wait"
    /\ pc = [s \in Scripts |-> "idle"]
    /\ exitCode = [s \in Scripts |-> NotExited]
    /\ raised = [s \in Scripts |-> "none"]
    /\ argv = [s \in Scripts |-> << >>]
    /\ loc = [s \in Scripts |-> NoLocals]
    /\ printed = [s \in Scripts |-> {}]
    /\ issued = {}
    /\ lastRun = NoRun
    /\ files = {}
    /\ run = 1
    /\ snap = NoSnap
    /\ InitCluster

\* a caller calls wait_for_...(…, timeout_seconds)
CallWait ==
    /\ mode = "wait" /\ w.fn = "none"
    /\ \E fn \in WaitFns :
         \E t \in Timeouts(fn) : w' = StartWait(fn, default_gcp_zone, t)
    /\ UNCHANGED <<mode, progVars, envVars>>

NextWait ==
    \/ CallWait
    \/ WaitCheck
    \/ WaitPoll
    \/ WaitSleep
    \/ EnvGke
    \/ EnvPods
    \/ EnvDeployment
    \/ EnvStatefulSet

SpecWait == InitWait /\ [][NextWait]_vars

\* the interpreter keeps executing the function: a status command that was started
\* returns, a sleep ends, the loop condition is evaluated
WaitProgress == WF_vars(WaitCheck) /\ WF_vars(WaitPoll) /\ WF_vars(WaitSleep)

SpecWaitFair == SpecWait /\ WaitProgress

-----------------------------------------------------------------------------
(* Properties *)

ReplicaWaits == {"voltsp", "voltdb"}

\* C1 (SpecWait): wait_for_voltsp_deployment_ready and wait_for_voltdb_cluster_ready
\* return True only if the poll just made observed spec.replicas > 0 and
\* status.readyReplicas = spec.replicas, so a resource with 0 or absent replicas is
\* never reported ready; they return False only at a loop check with the elapsed
\* time at or past timeout_seconds, no poll having found the resource ready.
C1_ReplicaWaitResult ==
    (w.fn \in ReplicaWaits /\ w.pc = "done") =>
        /\ w.result \in {"true", "false"}
        /\ w.result = "true" =>
               /\ w.obs.ok
               /\ w.obs.desired > 0
               /\ w.obs.ready = w.obs.desired
               /\ TrulyReady(w.fn, w.zone)
        /\ w.result = "false" =>
               /\ w.elapsed >= w.timeout
               /\ ~w.sawTruly
               /\ ~w.sawReady

\* a wait that returned True after an earlier poll that did not find readiness
C1_Witness ==
    /\ w.fn = "voltsp" /\ w.pc = "done" /\ w.result = "true"
    /\ w.polls >= 2 /\ w.obs.desired = MaxReplicas

C8_TrueIffAllBrokersReady ==
    (w.fn = "redpanda" /\ w.pc = "done") => ((w.result = "true") <=> w.sawTruly)

\* C6 as stated (Spec): run_command returns stdout for a command that exits 0; for
\* one that exits nonzero it terminates the process with status 1 when
\* exit_on_error, and returns None otherwise; nothing else comes out of it.
C6_RunCommandContract ==
    lastRun.script # "none" =>
        lastRun.outcome = (IF lastRun.ok THEN "stdout"
                           ELSE IF lastRun.exit_on_error THEN "SystemExit" ELSE "None")

Started(s) == pc[s] # "idle"

\* C2 (Spec): the next script of the chain is invoked only after the stage's
\* readiness wait returned True: vwap_setup.py only after wait_for_gke_cluster_ready
\* returned True and get-credentials succeeded; the core script only after the
\* rollout check succeeded, wait_for_redpanda_pods_ready returned True and the topic
\* alter-config succeeded; vwap_loadgen_setup.py only after
\* wait_for_voltsp_deployment_ready returned True.
C2_NextStageOnlyAfterReady ==
    /\ Started("vwap") =>
           /\ loc["try"].waited = "true"
           /\ loc["try"].credentials
           /\ <<"try", "gcloud container clusters get-credentials", run>> \in issued
    /\ Started("core") =>
           /\ loc["vwap"].rollout_successful
           /\ loc["vwap"].waited = "true"
           /\ loc["vwap"].altered
    /\ Started("loadgen") => loc["voltsp"].waited = "true"
    /\ \A s \in {"try", "vwap", "voltsp"} :
           (pc[s] \notin {"idle", "start"} /\ loc[s].waited = "false") =>
               /\ pc[s] = "exited" /\ exitCode[s] = 1
               /\ s = "try" => ~Started("vwap")
               /\ s = "vwap" => ~Started("core")
               /\ s = "voltsp" => ~Started("loadgen")

\* the whole chain was started, each stage after its wait returned True
C2_Witness ==
    /\ Started("loadgen") /\ loc["voltsp"].waited = "true"
    /\ loc["vwap"].waited = "true" /\ loc["try"].waited = "true"

Bound(s) == pc[s] \notin {"idle", "start"}

\* C3 (Spec): what a callee binds from sys.argv equals what its caller holds under
\* the same name: voltsp_setup.py reads (red_panda_release, redpanda_namespace,
\* volt_cluster_name, volt_ns) as the core script holds them, and
\* vwap_loadgen_setup.py reads (loadgen_ns, redpanda_namespace, volt_ns) as
\* voltsp_setup.py holds (voltsp_ns, redpanda_namespace, volt_ns).
C3_HandOffKeepsIdentifiers ==
    /\ Bound("voltsp") =>
           /\ Len(argv["voltsp"]) = 5
           /\ loc["voltsp"].red_panda_release = loc["core"].red_panda_release
           /\ loc["voltsp"].redpanda_namespace = loc["core"].redpanda_namespace
           /\ loc["voltsp"].volt_cluster_name = loc["core"].volt_cluster_name
           /\ loc["voltsp"].volt_ns = loc["core"].volt_ns
    /\ Bound("loadgen") =>
           /\ Len(argv["loadgen"]) = 4
           /\ loc["loadgen"].loadgen_ns = loc["voltsp"].voltsp_ns
           /\ loc["loadgen"].redpanda_namespace = loc["voltsp"].redpanda_namespace
           /\ loc["loadgen"].volt_ns = loc["voltsp"].volt_ns

\* both hand-offs were made, with values that tell every position from the others
C3_Witness ==
    /\ Bound("loadgen") /\ Bound("voltsp")
    /\ loc["loadgen"].loadgen_ns # loc["loadgen"].volt_ns
    /\ loc["loadgen"].volt_ns # loc["loadgen"].redpanda_namespace
    /\ loc["voltsp"].volt_ns # loc["voltsp"].redpanda_namespace

InstallCommand(s) == IF s = "vwap" THEN "helm upgrade --install" ELSE "helm install"

InstallIssued(s) ==
    \E c \in {"helm install", "helm upgrade --install"} : <<s, c, run>> \in issued

\* C4 (Spec): in vwap_setup.py and voltsp_setup.py the helm install command of the
\* stage is issued if and only if the preceding helm status exited nonzero; when
\* helm status succeeded no helm install or upgrade is issued in that run.
C4_InstallIffStatusFailed ==
    \A s \in {"vwap", "voltsp"} :
        Bound(s) =>
            /\ loc[s].decided => (InstallIssued(s) <=> ~loc[s].status_ok)
            /\ ~loc[s].decided => ~InstallIssued(s)
            /\ InstallIssued(s) => <<s, InstallCommand(s), run>> \in issued

\* one stage installed after a failed helm status, the other skipped after a good one
C4_Witness ==
    /\ Bound("vwap") /\ loc["vwap"].decided /\ ~loc["vwap"].status_ok
    /\ InstallIssued("vwap")
    /\ Bound("voltsp") /\ loc["voltsp"].decided /\ loc["voltsp"].status_ok
    /\ ~InstallIssued("voltsp")

\* C5 (SpecRerun): a second run of vwap_setup.py with the same answers, after a
\* first run that exited 0 and with the cluster unchanged in between, issues no
\* helm install and no rpk topic create, and leaves the namespaces, the Helm
\* release, its revision and brokers, the topics and their configuration as the
\* first run left them.
C5_RedpandaStageIdempotent ==
    run = 2 =>
        /\ <<"vwap", "helm upgrade --install", 2>> \notin issued
        /\ <<"vwap", "rpk topic create", 2>> \notin issued
        /\ Bound("vwap") => RedpandaStage(loc["vwap"].ns, loc["vwap"].release) = snap
        /\ RedpandaStage(snap.ns, snap.release) = snap

\* the second run went through the Redpanda stage and ended
C5_Witness ==
    /\ run = 2 /\ pc["vwap"] = "exited" /\ exitCode["vwap"] = 0
    /\ <<"vwap", "rpk topic alter-config", 2>> \in issued

Parent == [vwap |-> "try", core |-> "vwap", voltsp |-> "core", loadgen |-> "voltsp"]

RECURSIVE Ancestors(_)
Ancestors(s) == IF s = "try" THEN {} ELSE {Parent[s]} \cup Ancestors(Parent[s])

\* C9 (Spec): when an invoked script exits nonzero its invoker prints its failure
\* message, not its success message, and exits 1, so that every ancestor up to
\* tryVoltSP.py exits 1; a script prints its success message only if its child
\* exited 0.
C9_ChildFailurePropagates ==
    \A c \in DOMAIN Parent :
        LET p == Parent[c]
        IN  /\ (pc[p] = "exited" /\ Started(c)) =>
                   /\ pc[c] = "exited"
                   /\ loc[p].childrc = exitCode[c]
                   /\ exitCode[c] # 0 =>
                          /\ "failure" \in printed[p]
                          /\ "success" \notin printed[p]
                          /\ exitCode[p] = 1
            /\ "success" \in printed[p] =>
                   (Started(c) /\ pc[c] = "exited" /\ exitCode[c] = 0)
            /\ (pc[c] = "exited" /\ exitCode[c] # 0) =>
                   \A a \in Ancestors(c) : pc[a] = "exited" => exitCode[a] = 1

\* the last stage failed and the failure went all the way up
C9_Witness ==
    /\ pc["loadgen"] = "exited" /\ exitCode["loadgen"] = 1
    /\ pc["try"] = "exited" /\ exitCode["try"] = 1
    /\ "failure" \in printed["try"]

TempFiles == [voltsp |-> {"voltsp values"}, loadgen |-> {"loadgen config", "loadgen job"}]

\* C10 (Spec): every temporary YAML file that voltsp_setup.py or
\* vwap_loadgen_setup.py created has been removed when the script's main
\* terminates, whichever way it terminates, and already when its try block is left.
C10_TempFilesRemoved ==
    /\ \A s \in DOMAIN TempFiles :
           pc[s] = "exited" => (loc[s].made \subseteq TempFiles[s] /\ files \cap TempFiles[s] = {})
    /\ pc["voltsp"] \in {"invoke", "child"} => "voltsp values" \notin files
    /\ pc["loadgen"] \in {"job_yq", "job_apply"} => "loadgen config" \notin files

\* voltsp_setup.py left its try block normally having written its values file, and
\* vwap_loadgen_setup.py wrote both of its files and ended on a failing kubectl apply
C10_Witness ==
    /\ pc["loadgen"] = "exited" /\ exitCode["loadgen"] = 1
    /\ loc["loadgen"].made = TempFiles["loadgen"]
    /\ "voltsp values" \in loc["voltsp"].made

IssuedBy(s) == {e \in issued : e[1] = s}

\* C11 (SpecDirect): voltsp_setup.py given fewer than 4 positional arguments, and
\* vwap_loadgen_setup.py given fewer than 3, exit with status 1 by their own check,
\* before any prompt, any external command and any temporary file.
C11_MissingArgumentsExitFirst ==
    \A s \in DOMAIN Needed :
        (pc[s] \notin {"idle", "start"} /\ Len(argv[s]) - 1 < Needed[s]) =>
            /\ pc[s] = "exited" /\ exitCode[s] = 1 /\ raised[s] = "SystemExit"
            /\ printed[s] = {"missing arguments"}
            /\ IssuedBy(s) = {}
            /\ loc[s].made = {}
            /\ files = {}

\* voltsp_setup.py was given three positional arguments, one too few, and has exited
C11_Witness ==
    /\ pc["voltsp"] = "exited" /\ Len(argv["voltsp"]) = Needed["voltsp"]
    /\ exitCode["voltsp"] = 1

\* the answers that are 'gke' whatever the case of their letters
GkeSpellings == {"gke", "GKE", "Gke"}

\* C12 (Spec): in tryVoltSP.py, when the platform answer is not 'gke' in any case of
\* letters, or the GCP project ID is empty, the script exits with status 1 having
\* issued no external command and started no child script.
C12_RefusedBeforeAnyCommand ==
    (pc["try"] # "start"
       /\ (loc["try"].action \notin GkeSpellings \/ loc["try"].gcp_project_id = "")) =>
        /\ pc["try"] = "exited" /\ exitCode["try"] = 1
        /\ issued = {}
        /\ \A s \in Scripts \ {"try"} : ~Started(s)

\* the platform was accepted in capitals, the project ID was left empty
C12_Witness ==
    /\ pc["try"] = "exited" /\ loc["try"].action = "GKE"
    /\ loc["try"].gcp_project_id = ""

YesSpellings == {"yes", "YES", "Yes"}

\* the commands tryVoltSP.py issues before it asks whether to proceed
BeforeTheQuestion ==
    {<<"try", "gcloud config set project", 1>>, <<"try", "gcloud container clusters list", 1>>}

\* C13 (Spec): in tryVoltSP.py, when the cluster exists in the default zone and the
\* answer is not 'yes' in any case of letters, the script exits with status 0 and
\* issues nothing more: no cluster create, no readiness poll, no get-credentials, no
\* child script.
C13_DeclinedExitsZero ==
    (pc["try"] \notin {"start", "set_project", "check", "branch"}
       /\ loc["try"].exists
       /\ loc["try"].proceed_with_existing \notin YesSpellings) =>
        /\ pc["try"] = "exited" /\ exitCode["try"] = 0
        /\ issued = BeforeTheQuestion
        /\ w = NoWait /\ loc["try"].waited = "none"
        /\ \A s \in Scripts \ {"try"} : ~Started(s)

\* the cluster existed and the user answered 'y'
C13_Witness ==
    /\ pc["try"] = "exited" /\ loc["try"].exists
    /\ loc["try"].proceed_with_existing = "y"

\* the scripts whose process exists, and those of them not blocked in subprocess.run
Alive == {s \in Scripts : pc[s] \notin {"idle", "exited"}}
Unblocked == {s \in Alive : pc[s] # "child"}

WaitOwner == [gke |-> "try", redpanda |-> "vwap", voltsp |-> "voltsp",
              voltdb |-> "core", stsobj |-> "core"]

SequentialState ==
    /\ Cardinality(Unblocked) <= 1
    /\ \A c \in DOMAIN Parent : c \in Alive => pc[Parent[c]] = "child"
    /\ w.fn # "none" => WaitOwner[w.fn] \in Unblocked

SequentialStep ==
    /\ Cardinality(issued' \ issued) <= 1
    /\ \A e \in issued' \ issued : Unblocked = {e[1]} /\ w.fn = "none"
    /\ w' # w => (\E s \in Scripts : Unblocked = {s})

\* C14 (Spec): execution is sequential across the chain: at most one script is not
\* blocked on a child, a script that has a live child is blocked in subprocess.run,
\* each step issues at most one command and it is issued by the one script that is
\* not blocked, outside any poll of a readiness wait.
C14_StrictlySequential == [](SequentialState) /\ [][SequentialStep]_vars

\* four scripts blocked on their child while the last one runs a command
C14_Witness ==
    /\ pc["loadgen"] = "job_apply"
    /\ \A c \in DOMAIN Parent : pc[Parent[c]] = "child"
    /\ <<"loadgen", "kubectl apply configmap", 1>> \in issued

Stages == {"try", "vwap", "voltsp"}

\* where each stage decides between creating and skipping, and where it goes on
\* once its readiness checks are done
DecisionPc == [try |-> "branch", vwap |-> "install", voltsp |-> "install"]
ContinuationPc == [try |-> "credentials", vwap |-> "pod_name", voltsp |-> "invoke"]
ChecksPc == [try |-> {"start_wait", "wait"}, vwap |-> {"rollout", "start_wait", "wait"},
             voltsp |-> {"start_wait", "wait"}]
StageWait == [try |-> "gke", vwap |-> "redpanda", voltsp |-> "voltsp"]

StageStep(s) ==
    /\ (pc[s] = DecisionPc[s] /\ pc'[s] # pc[s]) =>
           \/ pc'[s] \in ChecksPc[s]
           \/ pc'[s] = "exited" /\ exitCode'[s] = (IF s = "try" /\ loc[s].exists THEN 0 ELSE 1)
    /\ (pc[s] \in ChecksPc[s] /\ pc'[s] # pc[s]) =>
           \/ pc'[s] \in ChecksPc[s]
           \/ pc'[s] = "exited" /\ exitCode'[s] = 1
           \/ /\ pc'[s] = ContinuationPc[s]
              /\ pc[s] = "wait" /\ w.fn = StageWait[s] /\ w.result = "true" /\ w.polls >= 1
              /\ s = "vwap" => loc[s].rollout_successful
              /\ s # "vwap" => w.sawTruly
    /\ (pc[s] = "wait" /\ w.pc = "done" /\ w.result = "false" /\ pc'[s] # pc[s]) =>
           (pc'[s] = "exited" /\ exitCode'[s] = 1)
    /\ (pc'[s] = ContinuationPc[s] /\ pc[s] # pc'[s]) => pc[s] = "wait"

C16_NotFoundIsRetried ==
    \A s \in {"vwap", "core"} :
        (Bound(s) /\ loc[s].rollout_stderr = "NotFound") =>
            (loc[s].i = max_retries - 1 /\ raised[s] = "SystemExit")

CeilDiv(a, b) == (a + b - 1) \div b

PollsBounded ==
    w.fn # "none" =>
        /\ w.polls <= CeilDiv(w.timeout, SleepInterval(w.fn))
        /\ (w.timeout = 0 /\ w.pc = "done") => (w.polls = 0 /\ w.result = "false")
        /\ w.timeout = 0 => w.pc \in {"check", "done"}

DefaultPollBounds ==
    /\ CeilDiv(REDPANDA_TIMEOUT, REDPANDA_SLEEP) = 60
    /\ CeilDiv(VOLTSP_TIMEOUT, VOLTSP_SLEEP) = 60
    /\ CeilDiv(GKE_TIMEOUT, GKE_SLEEP) = 30

\* C17 (SpecWaitFair): every readiness wait that is called returns, given that each
\* status command returns and each sleep ends; a call makes at most
\* ceil(timeout / interval) polls, which is 60, 60 and 30 for the Redpanda, VoltSP
\* and GKE waits at their default timeouts; with timeout_seconds = 0 it makes no
\* poll and returns False.
C17_WaitsTerminate ==
    /\ [](PollsBounded /\ DefaultPollBounds)
    /\ (w.fn # "none") ~> (w.pc = "done" /\ w.result \in {"true", "false"})

\* a wait that timed out having made every poll its timeout allows
C17_Witness ==
    /\ w.fn = "redpanda" /\ w.pc = "done" /\ w.result = "false"
    /\ w.polls = CeilDiv(w.timeout, SleepInterval(w.fn))
    /\ w.polls = 3

\* C18 (Spec): when the Helm release of the VoltDB core stage already exists and
\* its StatefulSet has all replicas ready at the existence check, the run issues no
\* helm install, no helm uninstall and no secret creation, and once the run has
\* finished its own work the table DUMMY holds the rows it held before the run.
C18_HealthyRunChangesNothing ==
    (/\ pc["core"] \in {"invoke", "child", "exited"}
     /\ loc["core"].exists /\ loc["core"].all_ready)
    => /\ \A c \in {"helm install", "helm uninstall", "kubectl create secret"} :
            <<"core", c, run>> \notin issued
       /\ rows = loc["core"].rows_before

\* C19 (Spec): tryVoltSP.py issues gcloud container clusters create only for a
\* zone whose inventory holds no cluster of the entered name: whatever the
\* inventory and whatever zone is entered, at the moment the create command is
\* issued the (name, zone) pair it names has no cluster.
C19_CreateOnlyWhereAbsent ==
    <<"try", "gcloud container clusters create", run>> \in issued
    => loc["try"].zone_held = "ABSENT"

====
